---- MODULE Spec2Model ----
(***************************************************************************)
(* DenselineLaneDetector (modules/perception/camera/lib/lane/detector/     *)
(* denseline/denseline_lane_detector.cc): the detector object, its Init    *)
(* and its Detect, with the camera model, the parsed configuration, the    *)
(* inference engine, the frame's data provider and the resize kernel as    *)
(* the environment.                                                         *)
(*                                                                         *)
(* A failed glog CHECK/CHECK_LE/CHECK_EQ is fatal: it aborts the process.  *)
(* A dereference of a null blob pointer is undefined behaviour; the model  *)
(* offers every outcome a build can produce as a nondeterministic choice.  *)
(*                                                                         *)
(* Spec takes every call of Init and Detect as one step. SpecFrames starts *)
(* from a Ready detector and takes Detect statement by statement for two   *)
(* callers with a frame each, following what the shared buffers hold.      *)
(***************************************************************************)
EXTENDS Integers, Sequences, FiniteSets, TLC

\* ------------------------------------------------------------------ bounds
\* Number of Init calls made on the detector in one process.
MaxInits == 2

\* ------------------------------------------------------- program constants
DefaultWidth == 1920
DefaultHeight == 1080
NetChannels == 3

\* Pointers: the null pointer, a pointer to x, and what a pointer points to.
NullPtr == <<>>
Ptr(x) == <<x>>
Deref(p) == p[1]

\* ------------------------------------------------------------ environment
\* options.base_camera_model: absent, or a camera reporting width and height
\* (0 included: the code guards against it).
CameraDims == {0, 1}
CameraModels == {Ptr(c) : c \in [width : CameraDims, height : CameraDims]}

\* model_param.resize_scale as an exact fraction <<numerator, denominator>>;
\* every member is a binary fraction, so the float product with a small
\* integer is exact and only the conversion to the integer field loses.
Scales == {<<1, 2>>, <<3, 2>>}
\* <<input_offset_x, input_offset_y>>
Offsets == {<<0, 0>>, <<1, 0>>, <<0, 1>>}
CropDims == {1, 2}

\* model_param of the parsed configuration (lines 67-71).
ModelParams ==
    {[resize_scale |-> s, input_offset_x |-> o[1], input_offset_y |-> o[2],
      crop_width |-> cw, crop_height |-> ch] :
        s \in Scales, o \in Offsets, cw \in CropDims, ch \in CropDims}

\* net_param of the parsed configuration (lines 99-104).
NetParams ==
    {[in_blob |-> "data", out_blob |-> "out", internal_blob_int8 |-> <<>>],
     [in_blob |-> "data2", out_blob |-> "out2", internal_blob_int8 |-> <<"aux">>]}

\* What the engine does with the network it is given, decided by the model
\* files and the engine, not by the detector: whether its Init succeeds,
\* which names it has no tensor for, and the input tensor's shape (the shape
\* asked for, or the shape fixed in the network).
AsRequested == <<>>
FixedShapes == {<<3, 1, 1>>, <<1, 1, 1>>}
EngineBehaviour(initOk, missing, shape) ==
    [initOk |-> initOk, missing |-> missing, shape |-> shape]
EngineBehaviours ==
    {EngineBehaviour(ok, {}, AsRequested) : ok \in BOOLEAN}
        \cup {EngineBehaviour(TRUE, {}, sh) : sh \in FixedShapes}
        \cup {EngineBehaviour(TRUE, m, AsRequested) : m \in {{"data"}, {"out"}}}

\* Frames handed to Detect; a frame's data provider reports a native size.
Frames == {Ptr("f1")}
FrameWidths == {1, DefaultWidth}
FrameHeights == {1, DefaultHeight}

\* The callers of Detect when calls may overlap, and the frame each one
\* hands in.
Callers == {1, 2}
FrameOf(t) == IF t = 1 THEN Ptr("f1") ELSE Ptr("f2")
CallerFrames == {FrameOf(t) : t \in Callers}

\* What a buffer holds: <<kind, frame name>>. A frame's image, the image
\* cropped and resized into the input tensor, the network's output for an
\* input tensor.
NoData == <<"none", "none">>
ImageOf(frame) == <<"image", Deref(frame)>>

\* ------------------------------------------------------------------ state
VARIABLES
    det,        \* the DenselineLaneDetector's members
    slot,       \* frame -> frame->lane_detected_blob
    proc,       \* "running", "aborted" (fatal CHECK) or "crashed" (null deref)
    lastInit,   \* what the most recent Init returned: "none", "true", "false"
    nInit,      \* Init calls made so far
    call,       \* the most recent call: what it was given and what it did
    \* What the buffers hold, followed only where Detect is taken statement
    \* by statement (SpecFrames); Spec follows which tensor a slot points to.
    pc,         \* caller -> where its Detect call stands
    image_src_, \* the member GetImage fills (line 175)
    mem,        \* tensor -> what it holds
    seen,       \* frame -> what its slot's tensor held when Detect returned
    serialized  \* the callers take turns: one Detect in flight at a time

bufVars == <<pc, image_src_, mem, seen, serialized>>
vars == <<det, slot, proc, lastInit, nInit, call, bufVars>>

\* ------------------------------------------------------- pure computations
\* uint field = integer * float: the product, converted to the integer
\* member, loses its fractional part (lines 125-126).
ScaleDim(dim, scale) == (dim * scale[1]) \div scale[2]

\* rt_net_->get_blob(name): the tensor, or a null pointer for a name the
\* network has no tensor for.
get_blob(net, name) ==
    IF name \in net.missing THEN NullPtr
    ELSE Ptr([gen |-> net.gen, name |-> name,
              shape |-> IF name = net.inName THEN net.inShape
                        ELSE <<1, 1, 1>>])

\* rt_net_->Init(input_reshape): the engine after its Init.
EngineInit(net, inName, shape, env) ==
    [net EXCEPT !.inited = env.initOk,
                !.missing = env.missing,
                !.inName = inName,
                !.inShape = IF env.shape = AsRequested THEN shape
                            ELSE env.shape]

\* The members before any Init.
NewDetector ==
    [base_camera_model_ |-> NullPtr,
     input_width_ |-> 0, input_height_ |-> 0,
     image_scale_ |-> <<0, 1>>,
     input_offset_x_ |-> 0, input_offset_y_ |-> 0,
     crop_width_ |-> 0, crop_height_ |-> 0,
     resize_width_ |-> 0, resize_height_ |-> 0,
     net_inputs_ |-> <<>>, net_outputs_ |-> <<>>,
     rt_net_ |-> NullPtr]

\* A call's record: the operation, how it ended ("true", "false", "abort",
\* "crash"), the steps it took in order, and for Detect the frame it was
\* given, the native size that frame reported, whether the engine's forward
\* pass went wrong inside, and the frame's result slot before the call.
CallRecord(op, ret, events, frame, sw, sh, inferOk, before) ==
    [op |-> op, ret |-> ret, events |-> events, frame |-> frame,
     src_width |-> sw, src_height |-> sh, inferOk |-> inferOk,
     before |-> before]

NoCall == CallRecord("none", "none", <<>>, NullPtr, 0, 0, TRUE, NullPtr)

\* ------------------------------------------------------------------- Init
\* The default size with width and height exchanged.
WithCameraDefaultSwapped(d, cam) ==
    [d EXCEPT !.base_camera_model_ = cam,
              !.input_height_ = IF cam = NullPtr THEN DefaultWidth
                                ELSE Deref(cam).height,
              !.input_width_ = IF cam = NullPtr THEN DefaultHeight
                               ELSE Deref(cam).width]

\* Lines 52-60: the camera model, or the default size without one.
WithCamera(d, cam) ==
    [d EXCEPT !.base_camera_model_ = cam,
              !.input_height_ = IF cam = NullPtr THEN DefaultHeight
                                ELSE Deref(cam).height,
              !.input_width_ = IF cam = NullPtr THEN DefaultWidth
                               ELSE Deref(cam).width]

\* Lines 61-62.
InputSizePositive(d) == d.input_width_ > 0 /\ d.input_height_ > 0

\* Lines 67-71.
WithModelParam(d, mp) ==
    [d EXCEPT !.image_scale_ = mp.resize_scale,
              !.input_offset_y_ = mp.input_offset_y,
              !.input_offset_x_ = mp.input_offset_x,
              !.crop_height_ = mp.crop_height,
              !.crop_width_ = mp.crop_width]

\* A crop check that looks at the height only.
CropWithinInputHeightOnly(d) == d.crop_height_ <= d.input_height_

\* Lines 73-76: the only bound Init puts on the crop.
CropWithinInput(d) ==
    /\ d.crop_height_ <= d.input_height_
    /\ d.crop_width_ <= d.input_width_

\* Lines 99-104: the names are appended to the members' lists.
WithNetParam(d, np) ==
    [d EXCEPT !.net_inputs_ = Append(@, np.in_blob),
              !.net_outputs_ = (@ \o <<np.out_blob>>) \o np.internal_blob_int8]

\* Lines 115-123: rt_net_.reset(CreateInferenceByName(...)); a new engine
\* that has not run its Init yet, or a null pointer.
WithEngine(d, gen, createOk) ==
    [d EXCEPT !.rt_net_ =
        IF createOk
        THEN Ptr([gen |-> gen, inited |-> FALSE, missing |-> {},
                  inName |-> "", inShape |-> <<0, 0, 0>>])
        ELSE NullPtr]

\* A resize computation that adds to the members instead of assigning them.
WithResizeAccumulated(d) ==
    [d EXCEPT !.resize_height_ = @ + ScaleDim(d.crop_height_, d.image_scale_),
              !.resize_width_ = @ + ScaleDim(d.crop_width_, d.image_scale_)]

\* Lines 125-126.
WithResize(d) ==
    [d EXCEPT !.resize_height_ = ScaleDim(d.crop_height_, d.image_scale_),
              !.resize_width_ = ScaleDim(d.crop_width_, d.image_scale_)]

\* Lines 127-128.
ResizePositive(d) == d.resize_width_ > 0 /\ d.resize_height_ > 0

\* Lines 130-133: the shape asked of the engine for net_inputs_[0], without
\* the batch dimension 1.
InputReshape(d) == <<NetChannels, d.resize_height_, d.resize_width_>>

\* Lines 139: rt_net_->Init(input_reshape).
WithEngineInit(d, env) ==
    [d EXCEPT !.rt_net_ =
        Ptr(EngineInit(Deref(@), d.net_inputs_[1], InputReshape(d), env))]

\* Lines 144-154: the names whose tensor the logging loops dereference.
LoggedNames(d) ==
    {d.net_inputs_[i] : i \in 1..Len(d.net_inputs_)}
        \cup {d.net_outputs_[i] : i \in 1..Len(d.net_outputs_)}

AllResolve(d) == \A n \in LoggedNames(d) : get_blob(Deref(d.rt_net_), n) # NullPtr

ProcAfter(ret) ==
    CASE ret = "abort" -> "aborted"
      [] ret = "crash" -> "crashed"
      [] OTHER -> "running"

\* How an Init call ends: the members as the call left them, what it
\* returned (or that it aborted or crashed), the engine steps it took.
InitReturn(d, ret, events) ==
    /\ det' = d
    /\ proc' = ProcAfter(ret)
    /\ lastInit' = IF ret = "true" THEN "true" ELSE "false"
    /\ call' = CallRecord("Init", ret, events, NullPtr, 0, 0, TRUE, NullPtr)

\* Init, lines 31-157. protoOk: the configuration file loads (line 34);
\* cam: options.base_camera_model; mp, np: the parsed configuration;
\* createOk: CreateInferenceByName returns an engine; env: what the engine
\* does; logDeref: what dereferencing a null blob inside the AINFO statements
\* of lines 146 and 152 does ("crash", or "skipped" in a build that compiles
\* INFO logging out). An input is drawn where the code first reads it.
InitCall ==
    /\ proc = "running"
    /\ nInit < MaxInits
    /\ nInit' = nInit + 1
    /\ UNCHANGED <<slot, bufVars>>
    /\ \E protoOk \in BOOLEAN :
       IF ~protoOk THEN InitReturn(det, "false", <<>>)
       ELSE \E cam \in CameraModels \cup {NullPtr} :
       LET d1 == WithCamera(det, cam) IN
       IF ~InputSizePositive(d1) THEN InitReturn(d1, "abort", <<>>)
       ELSE \E mp \in ModelParams :
       LET d2 == WithModelParam(d1, mp) IN
       IF ~CropWithinInput(d2) THEN InitReturn(d2, "abort", <<>>)
       ELSE \E np \in NetParams, createOk \in BOOLEAN :
       LET d3 == WithEngine(WithNetParam(d2, np), nInit + 1, createOk) IN
       IF d3.rt_net_ = NullPtr THEN InitReturn(d3, "abort", <<>>)
       ELSE LET d4 == WithResize(d3) IN
       IF ~ResizePositive(d4)
       THEN InitReturn(d4, "abort", <<"create_engine">>)
       ELSE \E env \in EngineBehaviours :
       LET d5 == WithEngineInit(d4, env) IN
       IF ~Deref(d5.rt_net_).inited
       THEN InitReturn(d5, "false", <<"create_engine", "engine_init">>)
       ELSE IF AllResolve(d5)
       THEN InitReturn(d5, "true", <<"create_engine", "engine_init">>)
       ELSE \E logDeref \in {"crash", "skipped"} :
            InitReturn(d5, IF logDeref = "crash" THEN "crash" ELSE "true",
                       <<"create_engine", "engine_init">>)

\* ----------------------------------------------------------------- Detect
\* A size check that compares the widths only.
SizeMatchesWidthOnly(d, sw, sh) == d.input_width_ = sw

\* Lines 168-173: the frame reports the native size recorded by Init.
SizeMatches(d, sw, sh) == d.input_width_ = sw /\ d.input_height_ = sh

\* A shape check that compares the heights only.
BlobMatchesHeightOnly(d, shape) == shape[2] = d.resize_height_

\* Lines 185-188: the live input tensor has the size computed by Init.
BlobMatches(d, shape) ==
    shape[2] = d.resize_height_ /\ shape[3] = d.resize_width_

\* How a Detect call ends.
DetectReturn(ret, events, frame, sw, sh, inferOk, published) ==
    /\ slot' = published
    /\ proc' = ProcAfter(ret)
    /\ call' = CallRecord("Detect", ret, events, frame, sw, sh, inferOk,
                          IF frame = NullPtr THEN NullPtr ELSE slot[frame])

\* The forward pass started before the device synchronisation.
RunAndPublishUnsynced(frame, sw, sh) ==
    \E inferOk \in BOOLEAN :
    LET out == get_blob(Deref(det.rt_net_), det.net_outputs_[1])
        done == <<"get_image", "resize_gpu", "infer", "sync", "publish">>
        published == [slot EXCEPT ![frame] = out]
    IN IF out # NullPtr
       THEN DetectReturn("true", done, frame, sw, sh, inferOk, published)
       ELSE \E dbgDeref \in {"crash", "skipped"} :
            DetectReturn(IF dbgDeref = "crash" THEN "crash" ELSE "true",
                         done, frame, sw, sh, inferOk, published)

\* Lines 192-208: the kernel, the synchronisation, the forward pass (whose
\* outcome the code does not look at) and the publication of the tensor
\* named net_outputs_[0]; dereferencing a null output tensor in the ADEBUG
\* statement of line 207 crashes, or is skipped when debug logging is off.
RunAndPublish(frame, sw, sh) ==
    \E inferOk \in BOOLEAN :
    LET out == get_blob(Deref(det.rt_net_), det.net_outputs_[1])
        done == <<"get_image", "resize_gpu", "sync", "infer", "publish">>
        published == [slot EXCEPT ![frame] = out]
    IN IF out # NullPtr
       THEN DetectReturn("true", done, frame, sw, sh, inferOk, published)
       ELSE \E dbgDeref \in {"crash", "skipped"} :
            DetectReturn(IF dbgDeref = "crash" THEN "crash" ELSE "true",
                         done, frame, sw, sh, inferOk, published)

\* Detect, lines 159-209. frame: the CameraFrame pointer; sw, sh: the native
\* size its data provider reports; imageOk: GetImage succeeds; readDeref:
\* what reading the shape through a null input tensor does (lines 179-181).
DetectCall ==
    /\ proc = "running"
    /\ UNCHANGED <<det, lastInit, nInit, bufVars>>
    /\ \E frame \in Frames \cup {NullPtr} :
       IF frame = NullPtr
       THEN DetectReturn("false", <<>>, frame, 0, 0, TRUE, slot)
       ELSE \E sw \in FrameWidths, sh \in FrameHeights :
       IF ~SizeMatches(det, sw, sh)
       THEN DetectReturn("abort", <<>>, frame, sw, sh, TRUE, slot)
       ELSE \E imageOk \in BOOLEAN :
       IF ~imageOk
       THEN DetectReturn("abort", <<"get_image_failed">>, frame, sw, sh,
                         TRUE, slot)
       ELSE IF det.rt_net_ = NullPtr \/ det.net_inputs_ = <<>>
       THEN DetectReturn("crash", <<"get_image">>, frame, sw, sh, TRUE, slot)
       ELSE LET input_blob ==
                    get_blob(Deref(det.rt_net_), det.net_inputs_[1]) IN
       IF input_blob # NullPtr
       THEN IF BlobMatches(det, Deref(input_blob).shape)
            THEN RunAndPublish(frame, sw, sh)
            ELSE DetectReturn("abort", <<"get_image">>, frame, sw, sh,
                              TRUE, slot)
       ELSE \E readDeref \in {"crash", "values_differ", "values_equal"} :
            CASE readDeref = "crash" ->
                   DetectReturn("crash", <<"get_image">>, frame, sw, sh,
                                TRUE, slot)
              [] readDeref = "values_differ" ->
                   DetectReturn("abort", <<"get_image">>, frame, sw, sh,
                                TRUE, slot)
              [] OTHER -> RunAndPublish(frame, sw, sh)

Init ==
    /\ det = NewDetector
    /\ slot = [f \in Frames |-> NullPtr]
    /\ proc = "running"
    /\ lastInit = "none"
    /\ nInit = 0
    /\ call = NoCall
    /\ pc = <<>>
    /\ image_src_ = NoData
    /\ mem = <<>>
    /\ seen = <<>>
    /\ serialized = TRUE

Next ==
    \/ InitCall
    \/ DetectCall

Spec == Init /\ [][Next]_vars

\* ------------------------------------------------- the spec's vocabulary
\* The detector object keeps no state of its own kind; the spec's states are
\* read off what the caller has seen: Ready when the most recent Init
\* returned true and the process is alive.
Uninitialized == lastInit = "none"
Ready == proc = "running" /\ lastInit = "true"
ReadyAtCall == lastInit = "true"

Steps(c) == {c.events[i] : i \in 1..Len(c.events)}
GpuWork(c) == Steps(c) \cap {"resize_gpu", "infer", "publish"} # {}

\* The most recent call was a Detect on a frame (det is as it was when the
\* call began: Detect assigns no member the model holds).
DetectOnFrame == call.op = "Detect" /\ call.frame # NullPtr
FrameHasNativeSize ==
    call.src_width = det.input_width_ /\ call.src_height = det.input_height_
ImageDelivered == call.events # <<>> /\ call.events[1] = "get_image"
LiveInputBlob ==
    IF det.rt_net_ = NullPtr \/ det.net_inputs_ = <<>> THEN NullPtr
    ELSE get_blob(Deref(det.rt_net_), det.net_inputs_[1])
InputBlobAsComputed ==
    /\ LiveInputBlob # NullPtr
    /\ Deref(LiveInputBlob).shape[2] = det.resize_height_
    /\ Deref(LiveInputBlob).shape[3] = det.resize_width_

\* ------------------------------------------------------------------ C1
\* C1 (as claimed): a detector is never Ready with a crop that passes the
\* frame edge, offset included: Ready implies offset_x + crop_width <=
\* native width and offset_y + crop_height <= native height.
C1_CropBound ==
    Ready =>
        /\ det.input_offset_x_ + det.crop_width_ <= det.input_width_
        /\ det.input_offset_y_ + det.crop_height_ <= det.input_height_

\* ------------------------------------------------------------------ C2
\* C2 (as claimed): a detector is never Ready unless crop_width x scale and
\* crop_height x scale are exact positive integers.
C2_IntegralResize ==
    Ready =>
        /\ (det.crop_width_ * det.image_scale_[1]) % det.image_scale_[2] = 0
        /\ (det.crop_height_ * det.image_scale_[1]) % det.image_scale_[2] = 0
        /\ det.crop_width_ * det.image_scale_[1] > 0
        /\ det.crop_height_ * det.image_scale_[1] > 0

\* ------------------------------------------------------------------ C3
\* C3 (as claimed): on a detector that reached Ready, a Detect with a frame
\* of another native size fails without kernel or inference, and a Detect
\* with a frame of exactly the native size reaches inference.
C3_FrameBindingAsClaimed ==
    (DetectOnFrame /\ ReadyAtCall) =>
        IF FrameHasNativeSize
        THEN "infer" \in Steps(call)
        ELSE call.ret \in {"false", "abort"} /\ ~GpuWork(call)

\* C3 (amended): on a detector that reached Ready, a Detect with a frame of
\* another native size is stopped by the fatal size check before the image
\* is fetched, the kernel issued or inference run; a Detect with a frame of
\* exactly the native size passes the size check and goes on to fetch the
\* image, and reaches inference if the image provider delivers the image and
\* the engine's input tensor exists with the height and width Init computed.
C3_FrameBinding ==
    (DetectOnFrame /\ ReadyAtCall) =>
        IF FrameHasNativeSize
        THEN /\ call.events # <<>>
             /\ (ImageDelivered /\ InputBlobAsComputed)
                    => "infer" \in Steps(call)
        ELSE call.ret = "abort" /\ call.events = <<>> /\ proc = "aborted"

C3_Witness ==
    /\ DetectOnFrame /\ ReadyAtCall /\ FrameHasNativeSize
    /\ "infer" \in Steps(call) /\ call.ret = "true"

\* ------------------------------------------------------------------ C4
\* C4 (as claimed): a Detect does GPU work (kernel, inference) or publishes
\* an output only when the most recent Init returned success.
C4_GpuWorkOnlyWhenReady ==
    (call.op = "Detect" /\ GpuWork(call)) => ReadyAtCall

\* ------------------------------------------------------------------ C5
\* C5 (as claimed, I3): whenever the detector is Ready the network's input
\* tensor has the shape (3, resize_height, resize_width).
C5_InputShape ==
    Ready =>
        /\ LiveInputBlob # NullPtr
        /\ Deref(LiveInputBlob).shape = InputReshape(det)

\* ------------------------------------------------------------------ C6
\* C6 (as claimed, I4): an Init that loaded a network in which a configured
\* name has no tensor ends as a failure, not as success and not as a crash;
\* whenever the detector is Ready every configured name resolves.
C6_NamesResolve ==
    /\ (call.op = "Init" /\ "engine_init" \in Steps(call)
            /\ Deref(det.rt_net_).inited /\ ~AllResolve(det))
          => call.ret \in {"false", "abort"}
    /\ Ready => AllResolve(det)

\* ------------------------------------------------------------------ C7
\* C7 (as claimed): after a Detect on a Ready detector that was given no
\* frame or a frame of another native size, the detector is still Ready
\* (so that a further Detect can be made).
C7_NonPoisoning ==
    (call.op = "Detect" /\ ReadyAtCall
        /\ (call.frame = NullPtr \/ ~FrameHasNativeSize)) => Ready

\* ------------------------------------------------------------------ C8
\* C8: a Detect that finds the live input tensor's height or width other
\* than the resize_height/resize_width computed at Init stops at the fatal
\* shape check, after the image was fetched and before the kernel or
\* inference, publishes nothing and leaves a process in which no call is
\* served any more; so no Detect succeeds afterwards.
ShapeDrifted ==
    /\ DetectOnFrame /\ ImageDelivered
    /\ LiveInputBlob # NullPtr /\ ~InputBlobAsComputed

C8_ShapeDrift ==
    /\ [](ShapeDrifted =>
            /\ call.ret = "abort" /\ call.events = <<"get_image">>
            /\ proc = "aborted" /\ slot[call.frame] = call.before)
    /\ [][proc = "aborted" => ~(call'.op = "Detect" /\ call'.ret = "true"
                                 /\ call' # call)]_vars

C8_Witness == ShapeDrifted /\ ReadyAtCall /\ proc = "aborted"

\* ------------------------------------------------------------------ C9
\* C9 (as claimed): a Detect on a Ready detector whose forward pass went
\* wrong does not return success.
C9_InferenceError ==
    (call.op = "Detect" /\ ReadyAtCall /\ "infer" \in Steps(call)
        /\ ~call.inferOk) => call.ret # "true"

\* ----------------------------------------------------------------- C10
\* C10 (as claimed): after a Detect on a Ready detector that failed (no
\* frame, size mismatch, image-provider failure, shape drift, inference
\* error) the frame's result slot holds what it held before the call.
C10_NoPartialOutput ==
    (DetectOnFrame /\ ReadyAtCall /\ (call.ret # "true" \/ ~call.inferOk))
        => slot[call.frame] = call.before

\* ------------------------------------------- the configured network names
\* The output names one configuration asks for: out_blob, then the internal
\* blobs (lines 101-104).
ConfiguredOutputs(np) == <<np.out_blob>> \o np.internal_blob_int8

Suffix(s, n) == SubSeq(s, Len(s) - n + 1, Len(s))

\* np is the network configuration the most recent Init read: lines 99-104
\* put its names at the end of the members' lists.
IsLatestNetParam(d, np) ==
    /\ d.net_inputs_ # <<>>
    /\ d.net_inputs_[Len(d.net_inputs_)] = np.in_blob
    /\ Len(d.net_outputs_) >= Len(ConfiguredOutputs(np))
    /\ Suffix(d.net_outputs_, Len(ConfiguredOutputs(np))) = ConfiguredOutputs(np)

LatestNetParam(d) == CHOOSE np \in NetParams : IsLatestNetParam(d, np)

\* C19 (name lists reflect the latest Init only): in a Ready detector the
\* list of input names is exactly the in_blob of the configuration the most
\* recent Init read, and the list of output names is exactly that
\* configuration's out_blob followed by its internal blobs, so that the
\* names at index 0 are those of the most recent Init.
C19_NamesOfLatestInit ==
    Ready =>
        /\ det.net_inputs_ = <<LatestNetParam(det).in_blob>>
        /\ det.net_outputs_ = ConfiguredOutputs(LatestNetParam(det))

\* The tensor the live engine binds to the out_blob of the configuration the
\* most recent Init read.
ConfiguredOutputBlob ==
    get_blob(Deref(det.rt_net_), LatestNetParam(det).out_blob)

\* C11 (the configured first output is what is published): after every
\* Detect that returns true on a Ready detector, the frame's result slot
\* holds the tensor the engine binds to the configured out_blob, the first
\* of the configured output names.
C11_PublishesConfiguredOutput ==
    (DetectOnFrame /\ ReadyAtCall /\ call.ret = "true" /\ call.inferOk) =>
        slot[call.frame] = ConfiguredOutputBlob

\* ------------------------------------------------------ repeated Init
\* The configuration and camera geometry an Init call was given, as the
\* members record them (lines 52-60, 67-71, 99-104).
Configuration(d) ==
    <<d.base_camera_model_, d.image_scale_, d.input_offset_x_,
      d.input_offset_y_, d.crop_width_, d.crop_height_, LatestNetParam(d)>>

\* The resolved geometry: the native size, the crop, the resize and the
\* input shape handed to the engine with the name it is bound to
\* (lines 130-133).
Geometry(d) ==
    <<d.input_width_, d.input_height_, d.input_offset_x_, d.input_offset_y_,
      d.crop_width_, d.crop_height_, d.resize_width_, d.resize_height_,
      d.net_inputs_[1], InputReshape(d)>>

\* This step is an Init call that read the same configuration and camera
\* geometry as the Init before it, which had returned true.
SameInitAgain ==
    /\ lastInit = "true"
    /\ nInit' = nInit + 1
    /\ call'.op = "Init"
    /\ Len(det'.net_inputs_) = Len(det.net_inputs_) + 1
    /\ AllResolve(det)
    /\ Configuration(det') = Configuration(det)

\* The engine created by this step behaves as the one before it did.
SameEngineAgain ==
    /\ det'.rt_net_ # NullPtr
    /\ Deref(det'.rt_net_).inited
    /\ Deref(det'.rt_net_).missing = Deref(det.rt_net_).missing
    /\ Deref(det'.rt_net_).inShape = Deref(det.rt_net_).inShape

\* C12 (Init is idempotent on its geometry): an Init call on a Ready
\* detector with the configuration and camera geometry of the Init before
\* it leaves the resolved geometry (native size, crop, resize, input shape
\* and the name it is bound to) as it was, and returns true again when the
\* engine is created and loads as it did the first time.
C12_IdempotentReinit ==
    [][SameInitAgain =>
          /\ Geometry(det') = Geometry(det)
          /\ SameEngineAgain => (call'.ret = "true" /\ lastInit' = "true")]_vars

\* Ready after a second Init that appended the names the first one had
\* appended, with a second engine.
C12_Witness ==
    /\ Ready
    /\ call.op = "Init"
    /\ nInit = 2
    /\ Len(det.net_inputs_) = 2
    /\ det.net_inputs_[1] = det.net_inputs_[2]
    /\ det.net_outputs_ =
           ConfiguredOutputs(LatestNetParam(det))
               \o ConfiguredOutputs(LatestNetParam(det))
    /\ Deref(det.rt_net_).gen = 2
    /\ Deref(det.rt_net_).inShape = InputReshape(det)

\* ----------------------------------------------------- the engine's shape
\* The crop lies inside the native frame and the scaled crop is a positive
\* whole number of pixels.
ValidConfiguration(d) ==
    /\ d.input_offset_x_ + d.crop_width_ <= d.input_width_
    /\ d.input_offset_y_ + d.crop_height_ <= d.input_height_
    /\ d.crop_width_ * d.image_scale_[1] > 0
    /\ d.crop_height_ * d.image_scale_[1] > 0
    /\ (d.crop_width_ * d.image_scale_[1]) % d.image_scale_[2] = 0
    /\ (d.crop_height_ * d.image_scale_[1]) % d.image_scale_[2] = 0

\* The most recent call was an Init that got as far as rt_net_->Init
\* (line 139).
EngineLoadedByInit == call.op = "Init" /\ "engine_init" \in Steps(call)

\* C13 (input shape and its binding): for every valid configuration Init
\* loads the network with the shape (3, crop_height x scale, crop_width x
\* scale) bound to the configured input tensor name; a native size of 1920
\* by 1080 with crop {0, 300, 1920, 480} and scale 0.5 resolves to
\* (3, 240, 960).
C13_ShapeBoundToConfiguredInput ==
    /\ LET ex == WithResize(WithModelParam(WithCamera(NewDetector, NullPtr),
                     [resize_scale |-> <<1, 2>>, input_offset_x |-> 0,
                      input_offset_y |-> 300, crop_width |-> 1920,
                      crop_height |-> 480]))
       IN ValidConfiguration(ex) /\ InputReshape(ex) = <<3, 240, 960>>
    /\ (EngineLoadedByInit /\ ValidConfiguration(det)) =>
          /\ InputReshape(det)[1] = 3
          /\ InputReshape(det)[2] * det.image_scale_[2] =
                 det.crop_height_ * det.image_scale_[1]
          /\ InputReshape(det)[3] * det.image_scale_[2] =
                 det.crop_width_ * det.image_scale_[1]
          /\ Deref(det.rt_net_).inName = LatestNetParam(det).in_blob

\* --------------------------------------------------- the order of the steps
\* Where in a call's steps a step occurs.
Positions(c, step) == {i \in 1..Len(c.events) : c.events[i] = step}

Once(c, step) == Cardinality(Positions(c, step)) = 1

\* Every occurrence of step a in the call comes before every occurrence
\* of step b.
Before(c, a, b) ==
    \A i \in Positions(c, a), j \in Positions(c, b) : i < j

\* C14 (kernel, sync, inference, publication in that order): a Detect that
\* returns true issued the resize kernel, synchronised the device, ran
\* inference and published the output, each exactly once and in that order;
\* in no Detect call is inference found without a synchronisation before
\* it.
C14_StepOrder ==
    /\ (call.op = "Detect" /\ call.ret = "true") =>
          /\ \A st \in {"resize_gpu", "sync", "infer", "publish"} :
                 Once(call, st)
          /\ Before(call, "resize_gpu", "sync")
          /\ Before(call, "sync", "infer")
          /\ Before(call, "infer", "publish")
    /\ call.op = "Detect" =>
          \A i \in Positions(call, "infer") :
              \E j \in Positions(call, "sync") : j < i

C14_Witness ==
    /\ DetectOnFrame
    /\ ReadyAtCall
    /\ call.ret = "true"
    /\ call.inferOk
    /\ "infer" \in Steps(call)
    /\ slot[call.frame] # NullPtr

\* ------------------------------------------- validation before the engine
\* The most recent call was an Init stopped by a fatal CHECK.
InitAborted == call.op = "Init" /\ call.ret = "abort"

\* ... by the crop check of lines 73-76: the members hold a crop larger than
\* the native size.
CropCheckFailed ==
    /\ InitAborted
    /\ InputSizePositive(det)
    /\ (det.crop_width_ > det.input_width_
           \/ det.crop_height_ > det.input_height_)

\* ... by the resize check of lines 127-128: the size and crop checks were
\* passed and an engine is there.
ResizeCheckFailed ==
    /\ InitAborted
    /\ InputSizePositive(det)
    /\ det.crop_width_ <= det.input_width_
    /\ det.crop_height_ <= det.input_height_
    /\ det.rt_net_ # NullPtr

\* The engine the detector holds was created by the most recent Init call.
EngineOfThisCall == det.rt_net_ # NullPtr /\ Deref(det.rt_net_).gen = nInit

CameraAbsent == det # NewDetector /\ det.base_camera_model_ = NullPtr

\* The most recent call was a Detect that got past the size check of lines
\* 168-173.
FrameAccepted == call.op = "Detect" /\ call.events # <<>>

\* C16 (default native size): an Init without a camera model records the
\* native size 1920 x 1080 and is not stopped by the size check; a detector
\* that then became Ready lets a frame past its size check exactly when the
\* frame reports 1920 x 1080, and stops the process on any other frame.
C16_DefaultNativeSize ==
    /\ CameraAbsent =>
          /\ det.input_width_ = 1920 /\ det.input_height_ = 1080
          /\ InitAborted =>
                 (CropCheckFailed \/ ResizeCheckFailed
                      \/ det.rt_net_ = NullPtr)
    /\ (CameraAbsent /\ DetectOnFrame /\ ReadyAtCall) =>
          /\ FrameAccepted <=>
                 (call.src_width = 1920 /\ call.src_height = 1080)
          /\ ~FrameAccepted => call.ret = "abort"

C16_Witness ==
    /\ CameraAbsent
    /\ DetectOnFrame
    /\ ReadyAtCall
    /\ call.src_width = 1920
    /\ call.src_height = 1080
    /\ call.ret = "true"
    /\ slot[call.frame] # NullPtr

\* ----------------------------------------------------- after a failed Init
\* A Detect call on detector d with a frame of the native size whose image
\* is delivered reaches the forward pass (lines 168-203).
DetectWouldInfer(d) ==
    /\ \E sw \in FrameWidths, sh \in FrameHeights : SizeMatches(d, sw, sh)
    /\ d.rt_net_ # NullPtr
    /\ d.net_inputs_ # <<>>
    /\ get_blob(Deref(d.rt_net_), d.net_inputs_[1]) # NullPtr
    /\ BlobMatches(d, Deref(get_blob(Deref(d.rt_net_), d.net_inputs_[1])).shape)

\* This step is an Init call on a Ready detector that returns false.
InitFailsOnReady ==
    /\ Ready
    /\ call'.op = "Init"
    /\ nInit' = nInit + 1
    /\ call'.ret = "false"

\* C17 (a failed Init leaves the detector Failed): when Init is called on a
\* Ready detector and fails, the detector is not Ready afterwards and no
\* following Detect reaches inference on what the failed call left behind.
C17_FailedInitStopsDetect ==
    [][InitFailsOnReady => (~Ready' /\ ~DetectWouldInfer(det'))]_vars

\* ------------------------------------------ Detect, statement by statement
\* The detectors a first Init leaves Ready: no camera model, a valid
\* configuration, an engine that loads and shapes its input as asked.
ReadyDetectors ==
    {d \in {WithEngineInit(
                WithResize(
                    WithEngine(
                        WithNetParam(
                            WithModelParam(WithCamera(NewDetector, NullPtr),
                                           mp),
                            np),
                        1, TRUE)),
                EngineBehaviour(TRUE, {}, AsRequested)) :
                mp \in ModelParams, np \in NetParams} :
        ValidConfiguration(d)}

\* The kernel of lines 192-200 reading a fixed frame's image.
ResizeGPUOfFirstFrame(image) == <<"resized", "f1">>

\* Lines 192-200: what the kernel writes into the input tensor.
ResizeGPU(image) == <<"resized", image[2]>>

\* Line 203: what the forward pass leaves in the output tensor.
Infer(input) == <<"lanes", input[2]>>

\* The tensors Detect works on (lines 178, 206).
InputTensor == get_blob(Deref(det.rt_net_), det.net_inputs_[1])
OutputTensor == get_blob(Deref(det.rt_net_), det.net_outputs_[1])

\* The callers' agreement, outside the detector: with serialization a call
\* begins only when no other call is in flight.
MayEnter(t) == serialized => \A u \in Callers : pc[u] = "idle"

Goto(t, label) == pc' = [pc EXCEPT ![t] = label]

\* A fatal CHECK inside a step.
AbortIn(t) ==
    /\ proc' = "aborted"
    /\ UNCHANGED <<det, slot, lastInit, nInit, call, bufVars>>

\* Lines 159-173: the null check and the size checks.
DetectBegin(t) ==
    /\ proc = "running"
    /\ pc[t] = "idle"
    /\ MayEnter(t)
    /\ \E frame \in {FrameOf(t), NullPtr} :
       IF frame = NullPtr THEN UNCHANGED vars
       ELSE \E sw \in FrameWidths, sh \in FrameHeights :
       IF ~SizeMatches(det, sw, sh) THEN AbortIn(t)
       ELSE /\ Goto(t, "sized")
            /\ UNCHANGED <<det, slot, proc, lastInit, nInit, call,
                           image_src_, mem, seen, serialized>>

\* Line 175: CHECK(GetImage(..., &image_src_)).
DetectGetImage(t) ==
    /\ proc = "running"
    /\ pc[t] = "sized"
    /\ \E imageOk \in BOOLEAN :
       IF ~imageOk THEN AbortIn(t)
       ELSE /\ image_src_' = ImageOf(FrameOf(t))
            /\ Goto(t, "imaged")
            /\ UNCHANGED <<det, slot, proc, lastInit, nInit, call, mem, seen,
                           serialized>>

\* Lines 178-200: the input tensor, its shape checks, the resize kernel.
DetectResize(t) ==
    /\ proc = "running"
    /\ pc[t] = "imaged"
    /\ IF InputTensor = NullPtr
       THEN /\ proc' = "crashed"
            /\ UNCHANGED <<det, slot, lastInit, nInit, call, bufVars>>
       ELSE IF ~BlobMatches(det, Deref(InputTensor).shape) THEN AbortIn(t)
       ELSE /\ mem' = [mem EXCEPT ![InputTensor] = ResizeGPU(image_src_)]
            /\ Goto(t, "resized")
            /\ UNCHANGED <<det, slot, proc, lastInit, nInit, call,
                           image_src_, seen, serialized>>

\* Line 202: cudaDeviceSynchronize().
DetectSync(t) ==
    /\ proc = "running"
    /\ pc[t] = "resized"
    /\ Goto(t, "synced")
    /\ UNCHANGED <<det, slot, proc, lastInit, nInit, call, image_src_, mem,
                   seen, serialized>>

\* Line 203: rt_net_->Infer().
DetectInfer(t) ==
    /\ proc = "running"
    /\ pc[t] = "synced"
    /\ mem' = [mem EXCEPT ![OutputTensor] = Infer(mem[InputTensor])]
    /\ Goto(t, "inferred")
    /\ UNCHANGED <<det, slot, proc, lastInit, nInit, call, image_src_, seen,
                   serialized>>

\* Lines 206-208: the slot is made to point at the output tensor and the
\* call returns true; the caller then reads the result through the slot.
DetectPublish(t) ==
    /\ proc = "running"
    /\ pc[t] = "inferred"
    /\ slot' = [slot EXCEPT ![FrameOf(t)] = OutputTensor]
    /\ seen' = [seen EXCEPT ![FrameOf(t)] = mem[OutputTensor]]
    /\ call' = CallRecord("Detect", "true",
                          <<"get_image", "resize_gpu", "sync", "infer",
                            "publish">>,
                          FrameOf(t), det.input_width_, det.input_height_,
                          TRUE, slot[FrameOf(t)])
    /\ Goto(t, "idle")
    /\ UNCHANGED <<det, proc, lastInit, nInit, image_src_, mem, serialized>>

\* A Ready detector, two callers with a frame each, nothing in the buffers.
FramesInit ==
    /\ det \in ReadyDetectors
    /\ slot = [f \in CallerFrames |-> NullPtr]
    /\ proc = "running"
    /\ lastInit = "true"
    /\ nInit = 1
    /\ call = CallRecord("Init", "true", <<"create_engine", "engine_init">>,
                         NullPtr, 0, 0, TRUE, NullPtr)
    /\ pc = [t \in Callers |-> "idle"]
    /\ image_src_ = NoData
    /\ mem = [b \in {InputTensor, OutputTensor} |-> NoData]
    /\ seen = [f \in CallerFrames |-> NoData]
    /\ serialized \in BOOLEAN

FramesNext ==
    \/ \E t \in Callers : DetectBegin(t)
    \/ \E t \in Callers : DetectGetImage(t)
    \/ \E t \in Callers : DetectResize(t)
    \/ \E t \in Callers : DetectSync(t)
    \/ \E t \in Callers : DetectInfer(t)
    \/ \E t \in Callers : DetectPublish(t)

SpecFrames == FramesInit /\ [][FramesNext]_vars

\* The result a caller read for its frame was computed from that frame's
\* image.
SeenOwnImage(f) == seen[f][1] = "lanes" /\ seen[f][2] = Deref(f)

\* C18 (concurrent Detect calls race, serialized ones do not): when the
\* callers serialize their Detect calls, every result a caller has read for
\* its frame was computed from that frame's image.
C18_SerializedDetect ==
    serialized =>
        \A f \in CallerFrames : seen[f] = NoData \/ SeenOwnImage(f)

\* Without serialization: the output published to a frame was computed from
\* the other frame's image.
C18_Witness ==
    /\ ~serialized
    /\ \E f \in CallerFrames, g \in CallerFrames :
          /\ f # g
          /\ slot[f] # NullPtr
          /\ seen[f] = <<"lanes", Deref(g)>>

\* What is read now through the result slot of frame f.
ReadThroughSlot(f) == mem[slot[f]]

\* C20 (a published output stays as it was): with the Detect calls
\* serialized and none in flight, the contents read through the result slot
\* of every frame a Detect has published to are the contents that Detect
\* published, whatever later Detect calls on other frames have done.
C20_PublishedOutputStable ==
    (serialized /\ \A t \in Callers : pc[t] = "idle") =>
        \A f \in CallerFrames :
            slot[f] # NullPtr => ReadThroughSlot(f) = seen[f]

====
